---- MODULE Spec2Model ----
(***************************************************************************)
(* Launch of semi-supervised training (src/train.py: main, main_worker)    *)
(* and one VAT training step (src/semilearn/algorithms/vat/vat.py).        *)
(*                                                                         *)
(* A run is a set of nodes; every node executes main(args) with the same   *)
(* command line except --rank (the node rank).  main() validates the       *)
(* configuration, queries the devices and starts main_worker once (in the  *)
(* calling process) or once per device (mp.spawn).                         *)
(***************************************************************************)
EXTENDS Integers, Sequences, FiniteSets, TLC

\* ------------------------------------------------------------------ bounds
MaxProcs == 4      \* devices of a run: nodes * max(devices per node, 1)
MaxGpus == 2       \* devices per node (torch.cuda.device_count())
MaxTrainIter == 2  \* --num_train_iter
MaxEpoch == 2      \* --epoch

\* ------------------------------------------------------- program constants
NoGpu == -1        \* --gpu default None
BatchSize == 4     \* --batch_size default
NumWorkers == 1    \* --num_workers default

VARIABLES
    cfg,          \* the command line and the machine: never changes
    fs,           \* fs[n]: which paths exist on node n
    margs,        \* margs[n]: the fields of args that main() assigns
    mpc,          \* mpc[n]: position of main() on node n
    rmtree_done,  \* rmtree_done[n]: main() deleted the save directory
    wpc,          \* wpc[p]: position of main_worker in process p
    wargs,        \* wargs[p]: the fields of args that main_worker assigns
    joined,       \* processes that called dist.init_process_group
    barrier,      \* processes that called torch.distributed.barrier
    ds,           \* ds[p]: progress of get_dataset in process p
    log,          \* log[p]: logger of process p and the records it emitted
    alg           \* alg[p]: the algorithm object (model) of process p

VARIABLES
    hp,           \* hyper-parameters of the VAT object and the batch shape
    tpc,          \* position inside train_step / vat_loss
    it,           \* self.it, the iteration counter
    bn_frozen,    \* batch-norm layers use frozen statistics
    grad,         \* what the parameters' .grad buffers hold
    applied,      \* what the last optimizer step consumed
    d,            \* the perturbation tensor of vat_loss
    r_adv,        \* the adversarial perturbation eps * d
    round,        \* the loop index i of vat_loss
    unsup_warmup, \* the warmup coefficient, a fraction <<num, den>>
    passes        \* forward passes of this step: <<which, batch-norm frozen>>

vat_vars == <<hp, tpc, it, bn_frozen, grad, applied, d, r_adv, round, unsup_warmup, passes>>

launch_vars == <<cfg, fs, margs, mpc, rmtree_done, wpc, wargs, joined, barrier, ds, log, alg>>

Max(a, b) == IF a >= b THEN a ELSE b

AllNodes == 0 .. (MaxProcs - 1)
AllLocal == 0 .. (Max(MaxGpus, 1) - 1)
AllProcs == AllNodes \X AllLocal

Nodes == 0 .. (cfg.world_size - 1)

\* ------------------------------------------------------------- file system
\* os.path.exists(path) for the two paths main() and main_worker() test
Exists(f, path) == IF path = "save" THEN f.save ELSE f.other

\* shutil.rmtree(save_path): a load path equal to the save path goes with it
Rmtree(f) == [f EXCEPT !.save = FALSE]

\* ------------------------------------------------------------------ main()
\* line 30: the assertion on the iteration budget
BudgetDivisible(c) == c.num_train_iter % c.epoch = 0

\* faulty variant: --resume does not protect the save directory
ShouldRmtreeOnResume(c, f) == Exists(f, "save") /\ c.overwrite

\* line 34: the condition under which the save directory is deleted
ShouldRmtree(c, f) == Exists(f, "save") /\ c.overwrite /\ c.resume = FALSE

\* faulty variant: the check of --load_path is missing
ConfigErrorNoLoadPath(c, f) ==
    IF Exists(f, "save") /\ ~c.overwrite THEN "already existing model"
    ELSE IF c.resume /\ c.load_path = "save" /\ ~c.overwrite THEN "pathes are same"
    ELSE "ok"

\* lines 37-44, after the deletion: the exception raised, or "ok"
ConfigError(c, f) ==
    IF Exists(f, "save") /\ ~c.overwrite THEN "already existing model"
    ELSE IF c.resume /\ c.load_path = "None" THEN "requires --load_path"
    ELSE IF c.resume /\ c.load_path = "save" /\ ~c.overwrite THEN "pathes are same"
    ELSE "ok"

\* lines 30-44: validation of the configuration
MainCheckConfig(n) ==
    /\ n \in Nodes
    /\ mpc[n] = "check"
    /\ IF ~BudgetDivisible(cfg)
       THEN /\ mpc' = [mpc EXCEPT ![n] = "error"]
            /\ UNCHANGED <<fs, rmtree_done>>
       ELSE LET del == ShouldRmtree(cfg, fs[n])
                f2 == IF del THEN Rmtree(fs[n]) ELSE fs[n]
            IN /\ fs' = [fs EXCEPT ![n] = f2]
               /\ rmtree_done' = [rmtree_done EXCEPT ![n] = del]
               /\ mpc' = [mpc EXCEPT ![n] =
                            IF ConfigError(cfg, f2) = "ok" THEN "setup" ELSE "error"]
    /\ UNCHANGED <<cfg, margs, wpc, wargs, joined, barrier, ds, log, alg, vat_vars>>

\* line 63
Distributed(world_size, mpd) == world_size > 1 \/ mpd

\* lines 46-64: warnings, args.gpu, args.distributed, torch.cuda.device_count()
\* (dist_url is "tcp://127.0.0.1:<port>" from both entry points, never "env://",
\* so world_size and rank are the ones of the command line)
MainSetup(n) ==
    /\ n \in Nodes
    /\ mpc[n] = "setup"
    /\ margs' = [margs EXCEPT ![n] =
                   [margs[n] EXCEPT
                      !.distributed = Distributed(margs[n].world_size,
                                                  cfg.multiprocessing_distributed),
                      !.ngpus_per_node = cfg.ngpus,
                      !.device_queried = TRUE]]
    /\ mpc' = [mpc EXCEPT ![n] = "launch"]
    /\ UNCHANGED <<cfg, fs, rmtree_done, wpc, wargs, joined, barrier, ds, log, alg, vat_vars>>

\* line 68: the number of processes of all nodes
TotalProcs(ngpus_per_node, world_size) == ngpus_per_node * world_size

\* the processes main() starts on node n: one per device (line 71) or itself (line 73)
Started(n, ngpus_per_node, mpd) ==
    IF mpd THEN {<<n, i>> : i \in 0 .. (ngpus_per_node - 1)} ELSE {<<n, 0>>}

\* the first argument of main_worker: the spawn index (line 71) or args.gpu (line 73)
GpuArg(p, mpd, gpu) == IF mpd THEN p[2] ELSE gpu

\* lines 66-73: mp.spawn(main_worker, nprocs=ngpus_per_node) or main_worker(args.gpu, ...)
MainLaunch(n) ==
    /\ n \in Nodes
    /\ mpc[n] = "launch"
    /\ LET mpd == cfg.multiprocessing_distributed
           G == margs[n].ngpus_per_node
           ws == IF mpd THEN TotalProcs(G, margs[n].world_size) ELSE margs[n].world_size
           new == Started(n, G, mpd)
       IN /\ margs' = [margs EXCEPT ![n].world_size = ws]
          /\ wpc' = [p \in AllProcs |-> IF p \in new THEN "init" ELSE wpc[p]]
          /\ wargs' = [p \in AllProcs |->
                         IF p \in new
                         THEN [wargs[p] EXCEPT !.gpu = GpuArg(p, mpd, margs[n].gpu),
                                               !.ngpus_per_node = G,
                                               !.world_size = ws,
                                               !.distributed = margs[n].distributed,
                                               !.rank = margs[n].rank]
                         ELSE wargs[p]]
    /\ mpc' = [mpc EXCEPT ![n] = "launched"]
    /\ UNCHANGED <<cfg, fs, rmtree_done, joined, barrier, ds, log, alg, vat_vars>>

\* ------------------------------------------------------------- main_worker
\* faulty variant: the node rank is not scaled by the devices per node
GlobalRankNoStride(rank, ngpus_per_node, gpu) == rank + gpu

\* line 97: the global rank of a spawned process
GlobalRank(rank, ngpus_per_node, gpu) == rank * ngpus_per_node + gpu

\* lines 81-101: seeds, the global rank, dist.init_process_group (entered here,
\* left in JoinReturn)
WorkerInit(p) ==
    /\ wpc[p] = "init"
    /\ LET a == wargs[p]
           r == IF a.distributed /\ cfg.multiprocessing_distributed
                THEN GlobalRank(a.rank, a.ngpus_per_node, a.gpu)
                ELSE a.rank
       IN /\ wargs' = [wargs EXCEPT ![p].rank = r]
          /\ IF a.distributed
             THEN /\ joined' = joined \cup {p}
                  /\ wpc' = [wpc EXCEPT ![p] = "join"]
             ELSE /\ UNCHANGED joined
                  /\ wpc' = [wpc EXCEPT ![p] = "logger"]
    /\ UNCHANGED <<cfg, fs, margs, mpc, rmtree_done, barrier, ds, log, alg, vat_vars>>

\* faulty variant: init_process_group returns without waiting for the peers
GroupCompleteAlone(members, world_size) == TRUE

\* the rendezvous of init_process_group: world_size processes, one per rank
GroupComplete(members, world_size) ==
    /\ Cardinality(members) = world_size
    /\ {wargs[q].rank : q \in members} = 0 .. (world_size - 1)

\* lines 100-101: init_process_group returns once every peer has joined
JoinReturn(p) ==
    /\ wpc[p] = "join"
    /\ GroupComplete(joined, wargs[p].world_size)
    /\ wpc' = [wpc EXCEPT ![p] = "logger"]
    /\ UNCHANGED <<cfg, fs, margs, mpc, rmtree_done, wargs, joined, barrier, ds, log, alg, vat_vars>>

\* faulty variant: every process logs
NodeLeaderAll(rank, ngpus_per_node) == TRUE

\* line 107: the processes that get the tensorboard log and the INFO level
NodeLeader(rank, ngpus_per_node) == rank % ngpus_per_node = 0

\* logger.info(...): the record is emitted by a logger of level INFO only
LogInfo(l, tag) ==
    [l EXCEPT !.calls = @ \cup {tag},
              !.records = IF l.level = "INFO" THEN @ \cup {tag} ELSE @]

\* line 240: logging.warning(...) on the root logger, emitted at any level
LogWarning(l, tag) ==
    [l EXCEPT !.calls = @ \cup {tag}, !.records = @ \cup {tag}]

\* faulty variant: no process waits before get_dataset
WaitsBeforeNever(a) == FALSE

\* faulty variant: rank 0 does not call the barrier after get_dataset
WaitsAfterNever(a) == FALSE

\* lines 116 and 122: which processes call the barrier before / after get_dataset
WaitsBefore(a) == a.rank /= 0 /\ a.distributed
WaitsAfter(a) == a.rank = 0 /\ a.distributed

\* lines 103-117: tb_log, logger, first record; a non-zero rank then calls the
\* barrier.  With no device the modulus of line 107 divides by zero.
WorkerLogger(p) ==
    /\ wpc[p] = "logger"
    /\ LET a == wargs[p] IN
       IF a.ngpus_per_node = 0
       THEN /\ wpc' = [wpc EXCEPT ![p] = "crashed"]
            /\ UNCHANGED <<log, barrier>>
       ELSE LET leader == NodeLeader(a.rank, a.ngpus_per_node)
                l0 == [log[p] EXCEPT !.tb_log = leader,
                                     !.level = IF leader THEN "INFO" ELSE "WARNING"]
            IN /\ log' = [log EXCEPT ![p] = LogInfo(l0, "use_gpu")]
               /\ IF WaitsBefore(a)
                  THEN /\ barrier' = barrier \cup {p}
                       /\ wpc' = [wpc EXCEPT ![p] = "barrier_before"]
                  ELSE /\ UNCHANGED barrier
                       /\ wpc' = [wpc EXCEPT ![p] = "dataset"]
    /\ UNCHANGED <<cfg, fs, margs, mpc, rmtree_done, wargs, joined, ds, alg, vat_vars>>

\* torch.distributed.barrier() returns once every process of the group called it
BarrierReturn(p) ==
    /\ wpc[p] \in {"barrier_before", "barrier_after"}
    /\ Cardinality(barrier) = wargs[p].world_size
    /\ wpc' = [wpc EXCEPT ![p] = IF wpc[p] = "barrier_before" THEN "dataset" ELSE "model"]
    /\ UNCHANGED <<cfg, fs, margs, mpc, rmtree_done, wargs, joined, barrier, ds, log, alg, vat_vars>>

\* line 118: get_dataset(...) is entered
GetDatasetStart(p) ==
    /\ wpc[p] = "dataset"
    /\ ds' = [ds EXCEPT ![p] = "constructing"]
    /\ wpc' = [wpc EXCEPT ![p] = "constructing"]
    /\ UNCHANGED <<cfg, fs, margs, mpc, rmtree_done, wargs, joined, barrier, log, alg, vat_vars>>

\* lines 118-123: get_dataset returns, the sizes are logged, rank 0 calls the barrier
GetDatasetEnd(p) ==
    /\ wpc[p] = "constructing"
    /\ ds' = [ds EXCEPT ![p] = "done"]
    /\ log' = [log EXCEPT ![p] = LogInfo(@, "data_number")]
    /\ IF WaitsAfter(wargs[p])
       THEN /\ barrier' = barrier \cup {p}
            /\ wpc' = [wpc EXCEPT ![p] = "barrier_after"]
       ELSE /\ UNCHANGED barrier
            /\ wpc' = [wpc EXCEPT ![p] = "model"]
    /\ UNCHANGED <<cfg, fs, margs, mpc, rmtree_done, wargs, joined, alg, vat_vars>>

\* line 140: torch.cuda.is_available()
CudaAvailable(ngpus_per_node) == ngpus_per_node > 0

\* line 150: int(args.batch_size / ngpus_per_node)
PerGpu(n, ngpus_per_node) == n \div ngpus_per_node

\* lines 142-166: how the model is placed on the devices
Wrapping(a) ==
    IF a.distributed
    THEN (IF a.gpu /= NoGpu THEN "ddp_device" ELSE "ddp")
    ELSE (IF a.gpu /= NoGpu THEN "device" ELSE "data_parallel")

\* lines 142-150: args.batch_size after the placement
BatchSizeFor(a) ==
    IF a.distributed /\ a.gpu /= NoGpu
    THEN PerGpu(a.batch_size, a.ngpus_per_node)
    ELSE a.batch_size

\* lines 173-180: num_workers handed to the labelled loader
WorkersFor(a) == a.num_workers

\* lines 125-208: model, optimizer, placement on the devices, data loaders
BuildModel(p) ==
    /\ wpc[p] = "model"
    /\ LET a == wargs[p] IN
       IF ~CudaAvailable(a.ngpus_per_node)
       THEN /\ wpc' = [wpc EXCEPT ![p] = "error"]
            /\ log' = [log EXCEPT ![p] = LogInfo(@, "params")]
            /\ alg' = [alg EXCEPT ![p].built = TRUE]
            /\ UNCHANGED wargs
       ELSE /\ wargs' = [wargs EXCEPT ![p].batch_size = BatchSizeFor(a)]
            /\ alg' = [alg EXCEPT ![p] =
                         [@ EXCEPT !.built = TRUE,
                                   !.wrap = Wrapping(a),
                                   !.loader_batch = BatchSizeFor(a),
                                   !.loader_workers = WorkersFor(a)]]
            /\ log' = [log EXCEPT ![p] =
                         LogInfo(LogInfo(LogInfo(@, "params"), "arguments"), "loaders")]
            /\ wpc' = [wpc EXCEPT ![p] = "resume"]
    /\ UNCHANGED <<cfg, fs, margs, mpc, rmtree_done, joined, barrier, ds, vat_vars>>

\* model.load_model(load_path): the iteration counter of the checkpoint is restored
LoadModel(m, ckpt_it) == [m EXCEPT !.it = ckpt_it, !.loaded = TRUE]

\* faulty variant: the exception of load_model is not caught
OnLoadFailureAbort(p) ==
    /\ wpc' = [wpc EXCEPT ![p] = "error"]
    /\ UNCHANGED <<log, wargs>>

\* lines 214-216: the handler of a failed load
OnLoadFailure(p) ==
    /\ log' = [log EXCEPT ![p] = LogInfo(@, "fail_to_resume")]
    /\ wargs' = [wargs EXCEPT ![p].resume = FALSE]
    /\ wpc' = [wpc EXCEPT ![p] = "train"]

\* lines 210-218: resume from args.load_path; loading may fail
Resume(p) ==
    /\ wpc[p] = "resume"
    /\ IF wargs[p].resume /\ Exists(fs[p[1]], cfg.load_path)
       THEN \E ok \in BOOLEAN :
              IF ok
              THEN /\ alg' = [alg EXCEPT ![p] = LoadModel(@, cfg.ckpt_it)]
                   /\ wpc' = [wpc EXCEPT ![p] = "train"]
                   /\ UNCHANGED <<log, wargs>>
              ELSE /\ alg' = [alg EXCEPT ![p].load_failed = TRUE]
                   /\ OnLoadFailure(p)
       ELSE /\ log' = [log EXCEPT ![p] = LogInfo(@, "does_not_exist")]
            /\ wpc' = [wpc EXCEPT ![p] = "train"]
            /\ UNCHANGED <<alg, wargs>>
    /\ UNCHANGED <<cfg, fs, margs, mpc, rmtree_done, joined, barrier, ds, vat_vars>>

\* model.train(): iterations from the current counter up to num_train_iter
TrainLoop(m, num_train_iter) ==
    [m EXCEPT !.start_it = m.it, !.iters = num_train_iter - m.it, !.it = num_train_iter]

\* lines 220-234: warmup hook, training, results, finetune hook
Train(p) ==
    /\ wpc[p] = "train"
    /\ alg' = [alg EXCEPT ![p] = TrainLoop(@, cfg.num_train_iter)]
    /\ log' = [log EXCEPT ![p] = LogInfo(LogInfo(@, "model_training"), "model_result")]
    /\ wpc' = [wpc EXCEPT ![p] = "finish"]
    /\ UNCHANGED <<cfg, fs, margs, mpc, rmtree_done, wargs, joined, barrier, ds, vat_vars>>

\* faulty variant: every process writes
SavesFinalAll(mpd, rank, ngpus_per_node) == TRUE

\* lines 236-237: the processes that write latest_model.pth
SavesFinal(mpd, rank, ngpus_per_node) ==
    ~mpd \/ (mpd /\ rank % ngpus_per_node = 0)

\* lines 236-240: final checkpoint, closing warning
Finish(p) ==
    /\ wpc[p] = "finish"
    /\ alg' = [alg EXCEPT ![p].saved =
                 SavesFinal(cfg.multiprocessing_distributed, wargs[p].rank,
                            wargs[p].ngpus_per_node)]
    /\ log' = [log EXCEPT ![p] = LogWarning(@, "finished")]
    /\ wpc' = [wpc EXCEPT ![p] = "done"]
    /\ UNCHANGED <<cfg, fs, margs, mpc, rmtree_done, wargs, joined, barrier, ds, vat_vars>>

\* ===================================================================== VAT
MaxNumIters == 2   \* num_iters of vat_loss
MaxWarmNum == 6    \* unsup_warm_up is n / WarmDen for n up to MaxWarmNum
WarmDen == 5       \* resolution of unsup_warm_up

VatEps == 6        \* --vat_eps default
XiDen == 1000000   \* xi = 1e-6 = 1 / XiDen

\* A tensor: its shape, and per example (first dimension) the elements of all other
\* dimensions, flattened, as integers over the example's denominator den.
NoTensor == [shape |-> <<>>, data |-> <<>>, den |-> <<>>]
Tensor(shape, data) == [shape |-> shape, data |-> data, den |-> [e \in DOMAIN data |-> 1]]

RECURSIVE SumSq(_)
SumSq(v) == IF v = <<>> THEN 0 ELSE v[1] * v[1] + SumSq(Tail(v))

Abs(x) == IF x < 0 THEN 0 - x ELSE x

RECURSIVE SumAbs(_)
SumAbs(v) == IF v = <<>> THEN 0 ELSE Abs(v[1]) + SumAbs(Tail(v))

\* np.sqrt(np.sum(d ** 2, axis=<all but the first>)) of one example (exact on the
\* examples the model draws, whose norms are integers)
ExampleNorm(v) ==
    CHOOSE r \in 0 .. SumAbs(v) : r * r <= SumSq(v) /\ (r + 1) * (r + 1) > SumSq(v)

\* d /= (norm + 1e-16): each example over its own norm (a common denominator of
\* the example cancels); the guard makes a zero example 0 / 1e-16 = 0 and is
\* below the resolution of any other
DivideByNorm(t) ==
    [t EXCEPT !.den = [e \in DOMAIN t.data |->
                         IF ExampleNorm(t.data[e]) = 0 THEN 1
                         ELSE ExampleNorm(t.data[e])]]

\* faulty variant: only a tensor of rank 4 is normalized
L2NormalizeRank4Only(t) == IF Len(t.shape) = 4 THEN DivideByNorm(t) ELSE t

\* lines 116-123: _l2_normalize
L2Normalize(t) ==
    IF Len(t.shape) = 4 THEN DivideByNorm(t)
    ELSE IF Len(t.shape) = 3 THEN DivideByNorm(t)
    ELSE t

\* k * t for the scalar k = num / den  (xi * d, eps * d)
Scale(t, num, den) ==
    [t EXCEPT !.data = [e \in DOMAIN t.data |-> [i \in DOMAIN t.data[e] |-> num * t.data[e][i]]],
              !.den = [e \in DOMAIN t.den |-> den * t.den[e]]]

\* faulty variant: no upper limit
ClipBelow(x) == IF x[1] < 0 THEN <<0, 1>> ELSE x

\* np.clip(x, a_min=0.0, a_max=1.0) of the fraction x = <<num, den>>, den > 0
Clip(x) == IF x[1] < 0 THEN <<0, 1>> ELSE IF x[1] > x[2] THEN <<1, 1>> ELSE x

\* line 65: np.clip(self.it / (self.unsup_warm_up * self.num_train_iter), 0, 1)
\* with unsup_warm_up the fraction w = <<num, den>>
UnsupWarmup(i, w, num_train_iter) ==
    Clip(<<i * w[2], w[1] * num_train_iter>>)

\* bn_controller.freeze_bn / unfreeze_bn
FreezeBn(b) == TRUE
UnfreezeBn(b) == FALSE

\* faulty variant: the gradients are kept
ZeroGradKept(g) == g

\* line 100: model.zero_grad()
ZeroGrad(g) == {}

\* a forward pass of the model, recorded with the batch-norm mode it ran in
Forward(which) == passes' = passes \cup {<<which, bn_frozen>>}

\* the tensors the model draws: two examples of two elements each
Shapes == {<<2, 2>>, <<2, 1, 2>>, <<2, 1, 1, 2>>, <<2, 1, 1, 1, 2>>}
\* torch.Tensor(size).normal_(): no example is exactly zero
RandomData == {<<<<3, 4>>, <<0, -5>>>>, <<<<-6, 8>>, <<5, 12>>>>}
\* d.grad: any value, an example's gradient may vanish
GradData == {<<<<0, 0>>, <<3, -4>>>>, <<<<8, 6>>, <<0, 2>>>>}

\* lines 49-50: logits and cross-entropy of the labelled batch
SupervisedLoss ==
    /\ tpc = "train_step"
    /\ it < hp.num_train_iter
    /\ Forward("labelled")
    /\ tpc' = "freeze"
    /\ UNCHANGED <<hp, it, bn_frozen, grad, applied, d, r_adv, round, unsup_warmup, launch_vars>>

\* lines 52-53 and 57-58: freeze_bn, in either mode
Freeze ==
    /\ tpc = "freeze"
    /\ bn_frozen' = FreezeBn(bn_frozen)
    /\ tpc' = "clean"
    /\ UNCHANGED <<hp, it, grad, applied, d, r_adv, round, unsup_warmup, passes, launch_vars>>

\* lines 54 and 59: the reference prediction ul_y (and the embedding)
CleanForward ==
    /\ tpc = "clean"
    /\ Forward("clean")
    /\ tpc' = "vat_loss"
    /\ UNCHANGED <<hp, it, bn_frozen, grad, applied, d, r_adv, round, unsup_warmup, launch_vars>>

\* lines 81-84: d is drawn with the shape of the embedding or of the input
VatInit ==
    /\ tpc = "vat_loss"
    /\ \E data \in RandomData : d' = Tensor(hp.shape, data)
    /\ round' = 0
    /\ tpc' = "loop"
    /\ UNCHANGED <<hp, it, bn_frozen, grad, applied, r_adv, unsup_warmup, passes, launch_vars>>

\* lines 86-88: another round; d = xi * _l2_normalize(d)
VatNormalize ==
    /\ tpc = "loop"
    /\ round < hp.num_iters
    /\ d' = Scale(L2Normalize(d), 1, XiDen)
    /\ tpc' = "probe"
    /\ UNCHANGED <<hp, it, bn_frozen, grad, applied, r_adv, round, unsup_warmup, passes, launch_vars>>

\* lines 90-94: y_hat = model(ul_x + d)
ProbeForward ==
    /\ tpc = "probe"
    /\ Forward("probe")
    /\ tpc' = "backward"
    /\ UNCHANGED <<hp, it, bn_frozen, grad, applied, d, r_adv, round, unsup_warmup, launch_vars>>

\* lines 96-97: delta_kl.backward() also accumulates into the parameters' gradients
ProbeBackward ==
    /\ tpc = "backward"
    /\ grad' = grad \cup {"probe"}
    /\ tpc' = "take_grad"
    /\ UNCHANGED <<hp, it, bn_frozen, applied, d, r_adv, round, unsup_warmup, passes, launch_vars>>

\* lines 99-100: d = d.grad.data.clone().cpu(); model.zero_grad()
TakeGrad ==
    /\ tpc = "take_grad"
    /\ \E data \in GradData : d' = Tensor(hp.shape, data)
    /\ grad' = ZeroGrad(grad)
    /\ round' = round + 1
    /\ tpc' = "loop"
    /\ UNCHANGED <<hp, it, bn_frozen, applied, r_adv, unsup_warmup, passes, launch_vars>>

\* lines 102-104: d = _l2_normalize(d); r_adv = eps * d
FinalNormalize ==
    /\ tpc = "loop"
    /\ round >= hp.num_iters
    /\ d' = L2Normalize(d)
    /\ r_adv' = Scale(L2Normalize(d), VatEps, 1)
    /\ tpc' = "final"
    /\ UNCHANGED <<hp, it, bn_frozen, grad, applied, round, unsup_warmup, passes, launch_vars>>

\* lines 107-114: y_hat = model(ul_x + r_adv.detach()); the loss is returned
FinalForward ==
    /\ tpc = "final"
    /\ Forward("final")
    /\ tpc' = "unfreeze"
    /\ UNCHANGED <<hp, it, bn_frozen, grad, applied, d, r_adv, round, unsup_warmup, launch_vars>>

\* faulty variant: unfreeze_bn is missing from the embedding branch
UnfreezeRawOnly ==
    /\ tpc = "unfreeze"
    /\ bn_frozen' = IF hp.vat_embed THEN bn_frozen ELSE UnfreezeBn(bn_frozen)
    /\ tpc' = "warmup"
    /\ UNCHANGED <<hp, it, grad, applied, d, r_adv, round, unsup_warmup, passes, launch_vars>>

\* lines 56 and 61: unfreeze_bn, in either mode
Unfreeze ==
    /\ tpc = "unfreeze"
    /\ bn_frozen' = UnfreezeBn(bn_frozen)
    /\ tpc' = "warmup"
    /\ UNCHANGED <<hp, it, grad, applied, d, r_adv, round, unsup_warmup, passes, launch_vars>>

\* lines 63-66: entropy term, warmup coefficient, total loss; a zero unsup_warm_up
\* divides by zero
Warmup ==
    /\ tpc = "warmup"
    /\ IF hp.unsup_warm_up[1] * hp.num_train_iter = 0
       THEN /\ tpc' = "crashed"
            /\ UNCHANGED unsup_warmup
       ELSE /\ unsup_warmup' = UnsupWarmup(it, hp.unsup_warm_up, hp.num_train_iter)
            /\ tpc' = "update"
    /\ UNCHANGED <<hp, it, bn_frozen, grad, applied, d, r_adv, round, passes, launch_vars>>

\* line 69: parameter_update(total_loss): backward, optimizer step, zero_grad
ParameterUpdate ==
    /\ tpc = "update"
    /\ applied' = grad \cup {"loss"}
    /\ grad' = {}
    /\ tpc' = "return"
    /\ UNCHANGED <<hp, it, bn_frozen, d, r_adv, round, unsup_warmup, passes, launch_vars>>

\* lines 71-77: the diagnostics are returned; the training loop counts the step
Return ==
    /\ tpc = "return"
    /\ it' = it + 1
    /\ passes' = {}
    /\ tpc' = IF it + 1 < hp.num_train_iter THEN "train_step" ELSE "trained"
    /\ UNCHANGED <<hp, bn_frozen, grad, applied, d, r_adv, round, unsup_warmup, launch_vars>>

\* ============================================================ specifications
\* the launch part at rest (the VAT step is checked on its own)
LaunchIdle ==
    /\ cfg = [num_train_iter |-> 1, epoch |-> 1, overwrite |-> TRUE, resume |-> FALSE,
              load_path |-> "None", ckpt_it |-> 0, multiprocessing_distributed |-> FALSE,
              world_size |-> 1, gpu |-> NoGpu, ngpus |-> 1]
    /\ fs = [n \in AllNodes |-> [save |-> FALSE, other |-> FALSE]]
    /\ margs = [n \in AllNodes |-> [world_size |-> 1, distributed |-> FALSE, gpu |-> NoGpu,
                                    rank |-> n, ngpus_per_node |-> 0, device_queried |-> FALSE]]
    /\ mpc = [n \in AllNodes |-> "absent"]
    /\ rmtree_done = [n \in AllNodes |-> FALSE]
    /\ wpc = [p \in AllProcs |-> "none"]
    /\ wargs = [p \in AllProcs |-> [gpu |-> NoGpu, ngpus_per_node |-> 0, world_size |-> 1,
                                    distributed |-> FALSE, rank |-> 0,
                                    batch_size |-> BatchSize, num_workers |-> NumWorkers,
                                    resume |-> FALSE]]
    /\ joined = {}
    /\ barrier = {}
    /\ ds = [p \in AllProcs |-> "none"]
    /\ log = [p \in AllProcs |-> [tb_log |-> FALSE, level |-> "unset", calls |-> {}, records |-> {}]]
    /\ alg = [p \in AllProcs |-> [built |-> FALSE, wrap |-> "none", loader_batch |-> 0,
                                  loader_workers |-> 0, it |-> 0, loaded |-> FALSE, load_failed |-> FALSE,
                                  start_it |-> 0, iters |-> 0, saved |-> FALSE]]

\* the VAT step at rest (the launch is checked on its own)
VatIdle ==
    /\ hp = [vat_embed |-> FALSE, num_iters |-> 1, unsup_warm_up |-> <<2, 5>>,
             num_train_iter |-> 1,
             shape |-> <<2, 1, 2>>]
    /\ tpc = "idle"
    /\ it = 0
    /\ bn_frozen = FALSE
    /\ grad = {}
    /\ applied = {}
    /\ d = NoTensor
    /\ r_adv = NoTensor
    /\ round = 0
    /\ unsup_warmup = <<0, 1>>
    /\ passes = {}

\* the machines of a run: world_size nodes of ngpus devices each; one process per
\* node or, with multiprocessing_distributed, one per device
Topologies ==
    {t \in [world_size : 1 .. MaxProcs, ngpus : 0 .. MaxGpus,
            multiprocessing_distributed : BOOLEAN, gpu : {NoGpu, 0}] :
        /\ t.world_size * Max(t.ngpus, 1) <= MaxProcs
        /\ t.multiprocessing_distributed => t.gpu = NoGpu}

Budgets == [num_train_iter : 1 .. MaxTrainIter, epoch : 1 .. MaxEpoch]

\* save / resume options and the paths found on disk; a checkpoint holds the
\* iteration it was taken at
Storages ==
    {s \in [overwrite : BOOLEAN, resume : BOOLEAN, load_path : {"None", "save", "other"},
            save : BOOLEAN, other : BOOLEAN, ckpt_it : 0 .. MaxTrainIter] :
        /\ s.other => s.load_path = "other"
        /\ s.ckpt_it > 0 => (s.resume /\ s.load_path /= "None")}

\* the defaults of train.py (--overwrite set, no --resume, no --load_path) on a
\* disk without the save directory
DefaultStorages ==
    {s \in Storages : s.overwrite /\ ~s.resume /\ s.load_path = "None" /\ ~s.save}

\* budgets of a single epoch
OneEpoch == {b \in Budgets : b.epoch = 1}

InitLaunch(topologies, budgets, storages) ==
    \E t \in topologies, b \in budgets, s \in storages :
        /\ s.ckpt_it <= b.num_train_iter
        /\ cfg = [num_train_iter |-> b.num_train_iter, epoch |-> b.epoch,
                  overwrite |-> s.overwrite, resume |-> s.resume,
                  load_path |-> s.load_path, ckpt_it |-> s.ckpt_it,
                  multiprocessing_distributed |-> t.multiprocessing_distributed,
                  world_size |-> t.world_size, gpu |-> t.gpu, ngpus |-> t.ngpus]
        /\ fs = [n \in AllNodes |-> [save |-> s.save, other |-> s.other]]
        /\ margs = [n \in AllNodes |-> [world_size |-> t.world_size, distributed |-> FALSE,
                                        gpu |-> t.gpu, rank |-> n, ngpus_per_node |-> 0,
                                        device_queried |-> FALSE]]
        /\ mpc = [n \in AllNodes |-> IF n < t.world_size THEN "check" ELSE "absent"]
        /\ rmtree_done = [n \in AllNodes |-> FALSE]
        /\ wpc = [p \in AllProcs |-> "none"]
        /\ wargs = [p \in AllProcs |-> [gpu |-> NoGpu, ngpus_per_node |-> 0, world_size |-> 1,
                                        distributed |-> FALSE, rank |-> 0,
                                        batch_size |-> BatchSize, num_workers |-> NumWorkers,
                                        resume |-> s.resume]]
        /\ joined = {}
        /\ barrier = {}
        /\ ds = [p \in AllProcs |-> "none"]
        /\ log = [p \in AllProcs |-> [tb_log |-> FALSE, level |-> "unset", calls |-> {},
                                      records |-> {}]]
        /\ alg = [p \in AllProcs |-> [built |-> FALSE, wrap |-> "none", loader_batch |-> 0,
                                      loader_workers |-> 0, it |-> 0, loaded |-> FALSE, load_failed |-> FALSE,
                                      start_it |-> 0, iters |-> 0, saved |-> FALSE]]

Next ==
    \/ \E n \in AllNodes : MainCheckConfig(n)
    \/ \E n \in AllNodes : MainSetup(n)
    \/ \E n \in AllNodes : MainLaunch(n)
    \/ \E p \in AllProcs : WorkerInit(p)
    \/ \E p \in AllProcs : JoinReturn(p)
    \/ \E p \in AllProcs : WorkerLogger(p)
    \/ \E p \in AllProcs : BarrierReturn(p)
    \/ \E p \in AllProcs : GetDatasetStart(p)
    \/ \E p \in AllProcs : GetDatasetEnd(p)
    \/ \E p \in AllProcs : BuildModel(p)
    \/ \E p \in AllProcs : Resume(p)
    \/ \E p \in AllProcs : Train(p)
    \/ \E p \in AllProcs : Finish(p)

vars == <<launch_vars, vat_vars>>

\* one node, every configuration of main()
Init == InitLaunch({t \in Topologies : t.world_size = 1}, Budgets, Storages) /\ VatIdle
Spec == Init /\ [][Next]_vars

\* several nodes, a single epoch, the default save / resume options
InitDist == InitLaunch(Topologies, OneEpoch, DefaultStorages) /\ VatIdle
SpecDist == InitDist /\ [][Next]_vars

\* the same runs, never stopping while a process, main() or main_worker, has a
\* step to take: the processes are scheduled by the operating system, and a step
\* a process can take stays possible until the process takes it
Fairness == WF_vars(Next)
\* the distributed runs on machines with devices, one iteration to train
InitDistFair ==
    /\ InitDist
    /\ Distributed(cfg.world_size, cfg.multiprocessing_distributed)
    /\ cfg.ngpus > 0
    /\ cfg.num_train_iter = 1
SpecDistFair == InitDistFair /\ [][Next]_vars /\ Fairness

\* train_step of VAT, iteration after iteration
HyperParams ==
    [vat_embed : BOOLEAN, num_iters : 0 .. MaxNumIters,
     unsup_warm_up : {<<n, WarmDen>> : n \in 0 .. MaxWarmNum},
     num_train_iter : 1 .. MaxTrainIter, shape : Shapes]

InitTrain ==
    /\ LaunchIdle
    /\ hp \in HyperParams
    /\ tpc = "train_step"
    /\ it = 0
    /\ bn_frozen = FALSE
    /\ grad = {}
    /\ applied = {}
    /\ d = NoTensor
    /\ r_adv = NoTensor
    /\ round = 0
    /\ unsup_warmup = <<0, 1>>
    /\ passes = {}

NextTrain ==
    \/ SupervisedLoss
    \/ Freeze
    \/ CleanForward
    \/ VatInit
    \/ VatNormalize
    \/ ProbeForward
    \/ ProbeBackward
    \/ TakeGrad
    \/ FinalNormalize
    \/ FinalForward
    \/ Unfreeze
    \/ Warmup
    \/ ParameterUpdate
    \/ Return

SpecTrain == InitTrain /\ [][NextTrain]_vars

\* ===================================================================== claims
\* processes whose main_worker has computed its rank
Ranked == {p \in AllProcs : wpc[p] \notin {"none", "init"}}

\* the configuration errors of main(), as the documentation lists them
FatalConfig(n) ==
    \/ cfg.num_train_iter % cfg.epoch /= 0
    \/ (fs[n].save /\ ~cfg.overwrite)
    \/ (cfg.resume /\ cfg.load_path = "None")
    \/ (cfg.resume /\ cfg.load_path = "save" /\ ~cfg.overwrite)

NoneStarted(n) == \A p \in AllProcs : p[1] = n => wpc[p] = "none"

\* C1: a configuration with a fatal error (budget not divisible by the epochs, as
\* for 100 and 7; save path existing without overwrite; resume without load path;
\* resume onto the load path without overwrite) ends main() in an error, and no
\* device has been queried and no worker started on that node, then or ever.
C1_ErrorsBeforeDevices ==
    /\ ~BudgetDivisible([num_train_iter |-> 100, epoch |-> 7])
    /\ \A n \in Nodes :
         /\ mpc[n] = "error" => (~margs[n].device_queried /\ NoneStarted(n))
         /\ FatalConfig(n) => (mpc[n] \in {"check", "error"}
                               /\ ~margs[n].device_queried /\ NoneStarted(n))

C1_Witness ==
    /\ mpc[0] = "error"
    /\ cfg.resume /\ cfg.load_path = "None"
    /\ cfg.num_train_iter % cfg.epoch = 0

\* C2: in a distributed run a process of rank other than 0 has entered get_dataset
\* only if it called the barrier first and the process of rank 0 has finished its
\* own get_dataset; rank 0 calls the barrier only after get_dataset returned.
C2_RankZeroConstructsFirst ==
    \A p \in Ranked :
        /\ (wargs[p].distributed /\ wargs[p].rank /= 0 /\ ds[p] /= "none") =>
              /\ p \in barrier
              /\ \E q \in Ranked : wargs[q].rank = 0 /\ ds[q] = "done"
        /\ (wargs[p].distributed /\ wargs[p].rank = 0 /\ p \in barrier) => ds[p] = "done"

C2_Witness ==
    \E p \in Ranked :
        /\ wargs[p].distributed /\ wargs[p].rank /= 0
        /\ ds[p] = "constructing"

C4_OnlyNodeLeadersSave ==
    \A p \in Ranked :
        alg[p].saved => wargs[p].rank % wargs[p].ngpus_per_node = 0

\* C4 (amended): with multiprocessing_distributed the final checkpoint is written
\* by the processes with rank % ngpus_per_node = 0 and by no other; without it
\* (single process, or one process per node) every process that finishes writes
\* it, whatever its rank.
C4_SaveGating ==
    \A p \in Ranked :
        /\ (cfg.multiprocessing_distributed /\ alg[p].saved) =>
              wargs[p].rank % wargs[p].ngpus_per_node = 0
        /\ wpc[p] = "done" =>
              (alg[p].saved <=> (~cfg.multiprocessing_distributed
                                 \/ wargs[p].rank % wargs[p].ngpus_per_node = 0))

C4_Witness ==
    \E p, q \in Ranked :
        /\ cfg.multiprocessing_distributed /\ cfg.ngpus > 0
        /\ wpc[p] = "done" /\ wpc[q] = "done"
        /\ wargs[p].rank /= 0 /\ alg[p].saved
        /\ wargs[q].rank % wargs[q].ngpus_per_node /= 0 /\ ~alg[q].saved

\* C5: a process whose load_model failed (resume requested, load path present) has
\* not aborted: resume is off, the failure has been logged (and emitted by an
\* INFO-level logger), and the process is in or past the training stage, which
\* starts from iteration 0.
C5_FailedLoadRestarts ==
    \A p \in Ranked :
        alg[p].load_failed =>
            /\ cfg.resume /\ Exists(fs[p[1]], cfg.load_path)
            /\ wpc[p] \in {"train", "finish", "done"}
            /\ wargs[p].resume = FALSE
            /\ "fail_to_resume" \in log[p].calls
            /\ log[p].level = "INFO" => "fail_to_resume" \in log[p].records
            /\ wpc[p] = "train" => alg[p].it = 0
            /\ wpc[p] \in {"finish", "done"} =>
                  (alg[p].start_it = 0 /\ alg[p].iters = cfg.num_train_iter)

C5_Witness ==
    \E p \in Ranked :
        /\ alg[p].load_failed /\ cfg.ckpt_it > 0
        /\ wpc[p] = "done" /\ alg[p].start_it = 0
        /\ "fail_to_resume" \in log[p].records

\* fractions <<num, den>> with den > 0
Leq(x, y) == x[1] * y[2] <= y[1] * x[2]
IsOne(x) == x[1] = x[2]
IsZero(x) == x[1] = 0

\* C6: for unsup_warm_up > 0 the coefficient train_step uses at iteration it is
\* min(1, max(0, it / (unsup_warm_up * num_train_iter))): within [0, 1], 0 at
\* iteration 0, exactly 1 from unsup_warm_up * num_train_iter on, never decreasing
\* in it; for 0.4 and 1000: 0 at 0, 1/2 at 200, below 1 at 399, 1 from 400 on.
C6_WarmupCoefficient ==
    /\ (tpc \in {"update", "return"} /\ hp.unsup_warm_up[1] > 0) =>
          LET c == unsup_warmup
              x == <<it * hp.unsup_warm_up[2], hp.unsup_warm_up[1] * hp.num_train_iter>>
          IN /\ c[2] > 0 /\ 0 <= c[1] /\ c[1] <= c[2]
             /\ it = 0 => IsZero(c)
             /\ Leq(<<1, 1>>, x) => IsOne(c)
             /\ ~Leq(<<1, 1>>, x) => (c[1] * x[2] = x[1] * c[2])
    /\ hp.unsup_warm_up[1] > 0 =>
          \A i, j \in 0 .. hp.num_train_iter :
              i <= j => Leq(UnsupWarmup(i, hp.unsup_warm_up, hp.num_train_iter),
                            UnsupWarmup(j, hp.unsup_warm_up, hp.num_train_iter))
    /\ IsZero(UnsupWarmup(0, <<2, 5>>, 1000))
    /\ LET h == UnsupWarmup(200, <<2, 5>>, 1000) IN 2 * h[1] = h[2]
    /\ ~IsOne(UnsupWarmup(399, <<2, 5>>, 1000))
    /\ \A i \in {400, 401, 700, 1000} : IsOne(UnsupWarmup(i, <<2, 5>>, 1000))

C6_Witness ==
    /\ tpc = "update" /\ hp.unsup_warm_up[1] > 0 /\ it > 0
    /\ 0 < unsup_warmup[1] /\ unsup_warmup[1] < unsup_warmup[2]

\* the forward passes vat_loss makes
VatPasses == {"probe", "final"}

C8_ProbeGradsCleared ==
    /\ "probe" \in grad => tpc = "take_grad"
    /\ tpc = "update" => grad = {}
    /\ "probe" \notin applied

C8_Witness ==
    /\ tpc = "return" /\ hp.num_iters >= 2 /\ round = hp.num_iters
    /\ applied = {"loss"}

\* C9 (as claimed): _l2_normalize returns only for a tensor of rank 3 or 4, so
\* vat_loss gets past a normalization only with such a tensor.
C9_NormalizeRejectsOtherRanks ==
    tpc \in {"probe", "final"} => Len(d.shape) \in {3, 4}

\* C10: with multiprocessing_distributed over world_size nodes of ngpus devices,
\* the process started for device i of node n has rank n * ngpus + i and joins
\* with world_size * ngpus as the size of the group; the ranks are pairwise
\* distinct and, once all processes have theirs, are exactly 0 .. world_size * ngpus - 1.
C10_GlobalRanks ==
    cfg.multiprocessing_distributed =>
        /\ \A p \in Ranked :
              /\ wargs[p].rank = p[1] * cfg.ngpus + p[2]
              /\ wargs[p].world_size = cfg.world_size * cfg.ngpus
        /\ \A p, q \in Ranked : p /= q => wargs[p].rank /= wargs[q].rank
        /\ Cardinality(Ranked) = cfg.world_size * cfg.ngpus =>
              {wargs[p].rank : p \in Ranked} = 0 .. (cfg.world_size * cfg.ngpus - 1)

C10_Witness ==
    /\ cfg.multiprocessing_distributed /\ cfg.world_size = 2 /\ cfg.ngpus = 2
    /\ Cardinality(Ranked) = 4
    /\ \A p \in Ranked : p \in joined /\ wpc[p] /= "join"

\* the processes of node n whose model is wrapped for one specific device
DeviceWrapped(n) == {p \in AllProcs : p[1] = n /\ alg[p].wrap = "ddp_device"}

\* C11 (as claimed): a process whose model is wrapped for synchronized-gradient
\* training on a specific device builds its loaders with the per-node batch size
\* and the per-node worker count divided evenly by the devices of the node, and
\* once all processes of a node have built theirs the per-process values add up
\* to the per-node values.
C11_PerDeviceDivision ==
    \A n \in Nodes :
        /\ \A p \in DeviceWrapped(n) :
              /\ alg[p].loader_batch * wargs[p].ngpus_per_node = BatchSize
              /\ alg[p].loader_workers * wargs[p].ngpus_per_node = NumWorkers
        /\ (DeviceWrapped(n) /= {}
             /\ DeviceWrapped(n) = Started(n, cfg.ngpus, cfg.multiprocessing_distributed)) =>
              \A p \in DeviceWrapped(n) :
                  /\ Cardinality(DeviceWrapped(n)) * alg[p].loader_batch = BatchSize
                  /\ Cardinality(DeviceWrapped(n)) * alg[p].loader_workers = NumWorkers

\* the construction a process has begun: its dataset, its model, the wrapping
Constructing(p) == ds[p] /= "none" \/ alg[p].built \/ alg[p].wrap /= "none"

\* C12: in a distributed run a process that has begun the construction of its
\* dataset or of its model, or has wrapped its model, has entered
\* init_process_group and returned from it, which needs every peer of the group
\* to have entered it too; a process still inside init_process_group has begun
\* none of them.
C12_JoinBeforeConstruction ==
    \A p \in Ranked :
        /\ (wargs[p].distributed /\ Constructing(p)) =>
              /\ p \in joined
              /\ wpc[p] /= "join"
              /\ Cardinality(joined) = wargs[p].world_size
        /\ wpc[p] \in {"init", "join"} => ~Constructing(p)

C12_Witness ==
    \E p, q \in Ranked :
        /\ p /= q
        /\ wargs[p].distributed /\ wargs[q].distributed
        /\ alg[p].wrap \in {"ddp", "ddp_device"}
        /\ ds[q] = "constructing"
        /\ {p, q} \subseteq joined

\* example e of tensor t is all zeros
ExampleIsZero(t, e) == SumSq(t.data[e]) = 0

\* the L2 norm of example e of tensor t, over its non-batch dimensions, is num / den
HasNorm(t, e, num, den) ==
    /\ ExampleNorm(t.data[e]) * ExampleNorm(t.data[e]) = SumSq(t.data[e])
    /\ ExampleNorm(t.data[e]) * den = num * t.den[e]

Rank34(t) == Len(t.shape) \in {3, 4}

\* C13 (as claimed): for a tensor of rank 3 or 4, every example of the direction
\* has norm 1 when it is scaled, so d = xi * _l2_normalize(d) has norm xi per
\* example inside the loop and r_adv = eps * _l2_normalize(d) has norm eps per
\* example after it.
C13_UnitNormPerExample ==
    /\ (tpc = "probe" /\ Rank34(d)) =>
          \A e \in DOMAIN d.data : HasNorm(d, e, 1, XiDen)
    /\ (tpc = "final" /\ Rank34(d)) =>
          \A e \in DOMAIN d.data : HasNorm(d, e, 1, 1) /\ HasNorm(r_adv, e, VatEps, 1)

\* C13 (amended): for a tensor of rank 3 or 4, _l2_normalize gives norm 1 to every
\* example that is not all zeros and leaves an all-zero example all zeros; so
\* inside the loop an example of d has norm xi, or 0 if it was zero, and after the
\* loop an example of r_adv has norm eps, or 0 if the example of d was zero.
C13_UnitNormUnlessZero ==
    [][/\ (tpc = "loop" /\ tpc' = "probe" /\ Rank34(d)) =>
            \A e \in DOMAIN d.data :
                IF ExampleIsZero(d, e) THEN ExampleIsZero(d', e)
                ELSE HasNorm(d', e, 1, XiDen)
       /\ (tpc = "loop" /\ tpc' = "final" /\ Rank34(d)) =>
            \A e \in DOMAIN d.data :
                IF ExampleIsZero(d, e) THEN ExampleIsZero(d', e) /\ ExampleIsZero(r_adv', e)
                ELSE HasNorm(d', e, 1, 1) /\ HasNorm(r_adv', e, VatEps, 1)]_vars

C13_Witness ==
    /\ tpc = "final" /\ Len(d.shape) = 3 /\ hp.num_iters >= 1
    /\ \E e, f \in DOMAIN r_adv.data :
          /\ ExampleIsZero(r_adv, e)
          /\ ~ExampleIsZero(r_adv, f) /\ HasNorm(r_adv, f, VatEps, 1)

\* C14: main() changes the file system of its node in one way only, the deletion
\* of the save directory during the validation, and only if the directory exists,
\* overwrite is set and resume is not requested (and then it does delete it); a
\* deletion is never undone or repeated.  So on a run that requests resume, and
\* on a run that main() ends with a configuration error, nothing was deleted.
C14_RmtreeOnlyOnOverwrite ==
    /\ [](\A n \in Nodes :
            /\ cfg.resume => ~rmtree_done[n]
            /\ mpc[n] = "error" => ~rmtree_done[n]
            /\ rmtree_done[n] => (cfg.overwrite /\ ~cfg.resume /\ ~fs[n].save))
    /\ [][\A n \in Nodes :
            /\ (fs'[n] /= fs[n] \/ rmtree_done'[n] /= rmtree_done[n]) =>
                  /\ mpc[n] = "check"
                  /\ fs[n].save /\ cfg.overwrite /\ ~cfg.resume
                  /\ ~rmtree_done[n] /\ rmtree_done'[n]
                  /\ fs'[n] = [fs[n] EXCEPT !.save = FALSE]
            /\ (mpc[n] = "check" /\ mpc'[n] /= "check" /\ BudgetDivisible(cfg)
                 /\ fs[n].save /\ cfg.overwrite /\ ~cfg.resume) => rmtree_done'[n]]_vars

C14_Witness ==
    /\ rmtree_done[0] /\ ~fs[0].save
    /\ cfg.overwrite /\ ~cfg.resume
    /\ mpc[0] = "launched"

\* the processes of a run: those every node starts
ExpectedProcs ==
    UNION {Started(n, cfg.ngpus, cfg.multiprocessing_distributed) : n \in Nodes}

\* process p has left the dataset construction and its barrier
PastDataset(p) ==
    wpc[p] \in {"model", "resume", "train", "finish", "done", "error"}

BarrierCalled(p) == wpc[p] \in {"barrier_before", "barrier_after"}

\* C15: in a distributed run on machines with devices (no process fails), a
\* process calls the barrier of the dataset construction when it has not called it
\* before, a process of rank other than 0 before its get_dataset and the process
\* of rank 0 after its own, and a call is never withdrawn; a process past the
\* dataset construction has called it; and every process of the run eventually
\* is past the dataset construction, at the construction of its model.
C15_BarrierNoDeadlock ==
    /\ [][\A p \in AllProcs :
            /\ p \in barrier => p \in barrier'
            /\ (BarrierCalled(p)' /\ ~BarrierCalled(p)) =>
                  /\ p \notin barrier /\ p \in barrier'
                  /\ wpc'[p] = "barrier_before" => (wargs[p].rank /= 0 /\ ds[p] = "none")
                  /\ wpc'[p] = "barrier_after" => (wargs[p].rank = 0 /\ ds'[p] = "done")
            /\ (p \notin barrier /\ p \in barrier') => BarrierCalled(p)']_vars
    /\ [](\A p \in AllProcs :
            (wargs[p].distributed /\ PastDataset(p)) => p \in barrier)
    /\ (Distributed(cfg.world_size, cfg.multiprocessing_distributed) /\ cfg.ngpus > 0) =>
          <>(\A p \in ExpectedProcs : PastDataset(p) /\ p \in barrier)

C15_Witness ==
    /\ cfg.multiprocessing_distributed /\ cfg.world_size = 2 /\ cfg.ngpus = 2
    /\ Cardinality(barrier) = 4
    /\ \A p \in ExpectedProcs : wpc[p] = "model"

====
